---------------------------- MODULE Spec2Model ----------------------------
(***************************************************************************)
(* A model of the helpers of django_components/utils.py:                   *)
(*   lazy_cache, validate_typed_tuple, validate_typed_dict, gen_id,        *)
(*   search_dirs, escape_js_string_literal,                                *)
(* and of get_component_dirs (django_components/util/loader.py), whose     *)
(* code is exercised by tests/test_loader.py.                              *)
(*                                                                         *)
(* lazy_cache is a state machine (closure state shared by the wrappers of  *)
(* one decorator).  The other helpers are pure functions: each has a       *)
(* specification whose Init draws the inputs and whose action applies the  *)
(* function.  Every specification leaves the variables of the other        *)
(* helpers at their idle values.                                           *)
(***************************************************************************)
EXTENDS Integers, Sequences, FiniteSets, TLC

VARIABLES
    \* ---- lazy_cache (utils.py:181-219)
    decorated,            \* the functions `decorator` has been applied to
    cached_fn,            \* the closure variable _cached_fn
    make_calls,           \* number of make_cache() invocations so far
    wrapper_calls,        \* number of wrapper(*args) calls so far
    calls_without_cache,  \* wrapper calls that found _cached_fn falsy
    removes,              \* number of cache_remove() calls so far
    removed,              \* cache_remove() was called since the last wrapper call
    seen,                 \* the <<fn, arg>> pairs the wrappers were called with
    last,                 \* what the last operation did and returned
    \* ---- validate_typed_tuple / validate_typed_dict (utils.py:94-175)
    version_311,          \* sys.version_info >= (3, 11)
    tuple_value, tuple_type, tuple_out,
    dict_value, dict_type, dict_out,
    \* ---- escape_js_string_literal (utils.py:260-267)
    js, js_out,
    \* ---- gen_id (utils.py:17-26)
    ids,                  \* the identifiers returned so far, in call order
    \* ---- search_dirs (utils.py:230-240)
    listing,              \* the files on disk, in directory-listing order
    dirs, search_glob, matched_files,
    \* ---- get_component_dirs (util/loader.py, tests/test_loader.py)
    components_dirs, component_dirs_out

lazy_vars     == <<decorated, cached_fn, make_calls, wrapper_calls,
                   calls_without_cache, removes, removed, seen, last>>
validate_vars == <<version_311, tuple_value, tuple_type, tuple_out,
                   dict_value, dict_type, dict_out>>
escape_vars   == <<js, js_out>>
gen_id_vars   == <<ids>>
search_vars   == <<listing, dirs, search_glob, matched_files>>
loader_vars   == <<components_dirs, component_dirs_out>>

vars == <<lazy_vars, validate_vars, escape_vars, gen_id_vars, search_vars,
          loader_vars>>

(***************************************************************************)
(* Bounds of the model.                                                    *)
(***************************************************************************)
MaxCalls == 3          \* wrapper calls explored per behaviour
MaxRemoves == 2        \* cache_remove() calls explored per behaviour
MaxTupleLen == 3       \* longest value handed to validate_typed_tuple
MaxTupleArity == 2     \* most element types of a Tuple[...] type
MaxFields == 2         \* most fields of a TypedDict type
MaxJsLen == 3          \* longest string handed to escape_js_string_literal
AlphabetSize == 3      \* characters of the ID alphabet explored (62 in gen_id)
IdSize == 2            \* characters per ID explored (size=6 in gen_id)
MaxGenCalls == 3       \* gen_id() calls explored per behaviour
MaxDirs == 2           \* most directories handed to search_dirs
MaxEntries == 2        \* most entries of COMPONENTS.dirs

\* Python's None, and the markers of an unused helper and of an output that
\* is not produced yet.
None == "None"
Idle == "idle"
Pending == "pending"

(***************************************************************************)
(* lazy_cache                                                              *)
(***************************************************************************)
\* The functions the decorator returned by ONE lazy_cache(make_cache) call is
\* applied to, and the arguments the wrappers are called with.
Fns == {"f", "g"}
Args == {1, 2}

\* fn(arg): the value the undecorated function fn returns for arg.
Apply(fn, arg) == <<fn, arg>>

\* `_cached_fn = None`.
NoCache == [fn |-> None, memo |-> {}, hits |-> 0, misses |-> 0]

\* cache = make_cache(); cache(fn): a fresh memoizing cache around fn, as
\* functools.lru_cache builds it: nothing memoized, statistics at zero.
NewCache(fn) == [fn |-> fn, memo |-> {}, hits |-> 0, misses |-> 0]

\* `if not _cached_fn`: None is falsy, a cache-wrapped function is truthy.
Truthy(c) == c.fn # None

\* _cached_fn(*args): a memoized argument is a hit and the wrapped function
\* is not invoked; any other argument is a miss, invokes it and is memoized.
CacheLookup(c, arg) ==
    IF arg \in c.memo
    THEN [c EXCEPT !.hits = @ + 1]
    ELSE [c EXCEPT !.memo = @ \cup {arg}, !.misses = @ + 1]

\* _cached_fn.cache_info(): hits, misses, currsize.
CacheInfo(c) == <<c.hits, c.misses, Cardinality(c.memo)>>

\* _cached_fn.cache_clear(): forget every memoized result, reset statistics.
CacheCleared(c) == [c EXCEPT !.memo = {}, !.hits = 0, !.misses = 0]

\* What an operation did: which attribute of which wrapper was called, the
\* exception it raised (None if it returned), what it returned, and whether
\* make_cache and the underlying function were invoked.
Outcome(op, fn, arg, raised, result, info, made, invoked, after, before) ==
    [op |-> op, fn |-> fn, arg |-> arg, raised |-> raised, result |-> result,
     info |-> info, made_cache |-> made, invoked_fn |-> invoked,
     after_remove |-> after, seen_before |-> before]

NoResult == <<None, 0>>
NoInfo == <<0, 0, 0>>

InitLazy ==
    /\ decorated = {}
    /\ cached_fn = NoCache
    /\ make_calls = 0
    /\ wrapper_calls = 0
    /\ calls_without_cache = 0
    /\ removes = 0
    /\ removed = FALSE
    /\ seen = {}
    /\ last = Outcome("none", None, 0, None, NoResult, NoInfo, FALSE, FALSE,
                      FALSE, FALSE)

\* decorator(fn): builds the wrapper and its three attributes; it neither
\* invokes make_cache nor touches _cached_fn.
Decorate(fn) ==
    /\ fn \notin decorated
    /\ decorated' = decorated \cup {fn}
    /\ last' = Outcome("decorate", fn, 0, None, NoResult, NoInfo, FALSE, FALSE,
                       FALSE, FALSE)
    /\ UNCHANGED <<cached_fn, make_calls, wrapper_calls, calls_without_cache,
                   removes, removed, seen>>

\* wrapper(arg) of the wrapper of fn: builds the cache around fn if
\* _cached_fn is falsy, then returns _cached_fn(arg).
WrapperCall(fn, arg) ==
    /\ fn \in decorated
    /\ wrapper_calls < MaxCalls
    /\ LET had == Truthy(cached_fn)
           c0 == IF had THEN cached_fn ELSE NewCache(fn)
       IN  /\ cached_fn' = CacheLookup(c0, arg)
           /\ make_calls' = make_calls + (IF had THEN 0 ELSE 1)
           /\ calls_without_cache' = calls_without_cache + (IF had THEN 0 ELSE 1)
           /\ last' = Outcome("call", fn, arg, None, Apply(c0.fn, arg), NoInfo,
                              ~had, arg \notin c0.memo, removed,
                              <<fn, arg>> \in seen)
    /\ wrapper_calls' = wrapper_calls + 1
    /\ removed' = FALSE
    /\ seen' = seen \cup {<<fn, arg>>}
    /\ UNCHANGED <<decorated, removes>>

\* wrapper.cache_info(): `_cached_fn.cache_info()`; on None the attribute
\* lookup raises AttributeError.
CacheInfoCall(fn) ==
    /\ fn \in decorated
    /\ last' = IF Truthy(cached_fn)
               THEN Outcome("cache_info", fn, 0, None, NoResult,
                            CacheInfo(cached_fn), FALSE, FALSE, FALSE, FALSE)
               ELSE Outcome("cache_info", fn, 0, "AttributeError", NoResult,
                            NoInfo, FALSE, FALSE, FALSE, FALSE)
    /\ UNCHANGED <<decorated, cached_fn, make_calls, wrapper_calls,
                   calls_without_cache, removes, removed, seen>>

\* wrapper.cache_clear(): `_cached_fn.cache_clear()`; on None the attribute
\* lookup raises AttributeError.
CacheClearDropsInstance(fn) ==
    /\ fn \in decorated
    /\ cached_fn' = NoCache
    /\ last' = Outcome("cache_clear", fn, 0, None, NoResult, NoInfo, FALSE,
                       FALSE, FALSE, FALSE)
    /\ UNCHANGED <<decorated, make_calls, wrapper_calls, calls_without_cache,
                   removes, removed, seen>>

CacheClearCall(fn) ==
    /\ fn \in decorated
    /\ IF Truthy(cached_fn)
       THEN /\ cached_fn' = CacheCleared(cached_fn)
            /\ last' = Outcome("cache_clear", fn, 0, None, NoResult, NoInfo,
                               FALSE, FALSE, FALSE, FALSE)
       ELSE /\ cached_fn' = cached_fn
            /\ last' = Outcome("cache_clear", fn, 0, "AttributeError", NoResult,
                               NoInfo, FALSE, FALSE, FALSE, FALSE)
    /\ UNCHANGED <<decorated, make_calls, wrapper_calls, calls_without_cache,
                   removes, removed, seen>>

\* wrapper.cache_remove(): `_cached_fn = None`.
CacheRemoveOnlyClears(fn) ==
    /\ fn \in decorated
    /\ removes < MaxRemoves
    /\ cached_fn' = IF Truthy(cached_fn) THEN CacheCleared(cached_fn) ELSE cached_fn
    /\ removes' = removes + 1
    /\ removed' = TRUE
    /\ last' = Outcome("cache_remove", fn, 0, None, NoResult, NoInfo, FALSE,
                       FALSE, FALSE, FALSE)
    /\ UNCHANGED <<decorated, make_calls, wrapper_calls, calls_without_cache,
                   seen>>

CacheRemoveCall(fn) ==
    /\ fn \in decorated
    /\ removes < MaxRemoves
    /\ cached_fn' = NoCache
    /\ removes' = removes + 1
    /\ removed' = TRUE
    /\ last' = Outcome("cache_remove", fn, 0, None, NoResult, NoInfo, FALSE,
                       FALSE, FALSE, FALSE)
    /\ UNCHANGED <<decorated, make_calls, wrapper_calls, calls_without_cache,
                   seen>>

(***************************************************************************)
(* validate_typed_tuple / validate_typed_dict                              *)
(***************************************************************************)
\* A value is represented by its runtime class, type(value): it is all the
\* validation reads of it.
Classes == {"int", "str", "Comp"}

\* The declared element types: a plain class, or the subscripted user-made
\* generic Comp[int], whose __origin__ is the class Comp.
DeclTypes == {"int", "Comp[int]"}

Keys == {"a", "b", "c"}

\* _prepare_type_for_validation: a subscripted generic whose origin is not an
\* export of `typing` is resolved to its origin class; any other type is
\* returned as it is.
PrepareTypeKeepsGeneric(the_type) == the_type

PrepareType(the_type) == IF the_type = "Comp[int]" THEN "Comp" ELSE the_type

\* isinstance(arg, arg_type) for a value of class cls.  A subscripted
\* generic is an instance check of nothing.
IsInstance(cls, arg_type) == cls = arg_type

\* The outcome of a validation: returned (exc = None) or the TypeError raised,
\* with the parts of its message.
Returned ==
    [exc |-> None, msg |-> "", index |-> -1, key |-> "", keys |-> {},
     n_expected |-> 0, n_got |-> 0, type_expected |-> "", type_got |-> ""]

\* The validator was not applied yet / is not used by this specification.
PendingOut == [Returned EXCEPT !.exc = Pending]
IdleOut == [Returned EXCEPT !.exc = Idle]

\* f"{prefix} expected {expected_pos_args} {kind}s, got {actual_pos_args}"
CountError(expected, actual) ==
    [Returned EXCEPT !.exc = "TypeError", !.msg = "expected_count",
                     !.n_expected = expected, !.n_got = actual]

\* f"{prefix} expected {kind} at index {index} to be {arg_type}, got {arg} of
\* type {type(arg)}"
IndexTypeError(index, arg_type, cls) ==
    [Returned EXCEPT !.exc = "TypeError", !.msg = "expected_type_at_index",
                     !.index = index, !.type_expected = arg_type,
                     !.type_got = cls]

\* f"{prefix} is missing a required {kind} '{key}'"
MissingKeyError(key) ==
    [Returned EXCEPT !.exc = "TypeError", !.msg = "missing_required",
                     !.key = key]

\* f"{prefix} expected {kind} '{key}' to be {kwarg_type}, got {kwarg} of type
\* {type(kwarg)}"
KeyTypeError(key, kwarg_type, cls) ==
    [Returned EXCEPT !.exc = "TypeError", !.msg = "expected_type_at_key",
                     !.key = key, !.type_expected = kwarg_type,
                     !.type_got = cls]

\* f"{prefix} got unexpected {kind} keys {formatted_keys}"
UnexpectedKeysError(unseen_keys) ==
    [Returned EXCEPT !.exc = "TypeError", !.msg = "unexpected_keys",
                     !.keys = unseen_keys]

\* typing.Any, a Tuple[...] type with its __args__, a TypedDict with its
\* fields in declaration order (the order of get_type_hints).
AnyType == [any |-> TRUE, args |-> <<>>]
TupleType(args) == [any |-> FALSE, args |-> args]
DictType(fields) == [any |-> FALSE, args |-> fields]

\* `for index, arg_type in enumerate(tuple_type.__args__)`, from the position
\* i (1-based here, 0-based in the message).
RECURSIVE TupleLoop(_, _, _)
TupleLoop(value, args, i) ==
    IF i > Len(args)
    THEN Returned
    ELSE LET arg == value[i]
             arg_type == PrepareType(args[i])
         IN  IF version_311 /\ ~IsInstance(arg, arg_type)
             THEN IndexTypeError(i - 1, arg_type, arg)
             ELSE TupleLoop(value, args, i + 1)

\* Without the test for Any: typing.Any has no __args__, the attribute lookup
\* raises.
validate_typed_tuple_no_any_skip(value, the_type) ==
    IF the_type.any
    THEN [Returned EXCEPT !.exc = "AttributeError"]
    ELSE LET expected_pos_args == Len(the_type.args)
             actual_pos_args == Len(value)
         IN  IF expected_pos_args > actual_pos_args
             THEN CountError(expected_pos_args, actual_pos_args)
             ELSE TupleLoop(value, the_type.args, 1)

validate_typed_tuple(value, the_type) ==
    IF the_type.any
    THEN Returned
    ELSE LET expected_pos_args == Len(the_type.args)
             actual_pos_args == Len(value)
         IN  IF expected_pos_args > actual_pos_args
             THEN CountError(expected_pos_args, actual_pos_args)
             ELSE TupleLoop(value, the_type.args, 1)

\* `for key, kwarg_type in get_type_hints(dict_type).items()`, from field i,
\* with the keys of the value not met so far.
RECURSIVE DictLoop(_, _, _, _)
DictLoop(value, fields, i, unseen_keys) ==
    IF i > Len(fields)
    THEN IF unseen_keys # {}
         THEN UnexpectedKeysError(unseen_keys)
         ELSE Returned
    ELSE LET key == fields[i].key
         IN  IF key \notin DOMAIN value
             THEN IF fields[i].required
                  THEN MissingKeyError(key)
                  ELSE DictLoop(value, fields, i + 1, unseen_keys)
             ELSE LET kwarg == value[key]
                      kwarg_type == PrepareType(fields[i].type)
                  IN  IF version_311 /\ ~IsInstance(kwarg, kwarg_type)
                      THEN KeyTypeError(key, kwarg_type, kwarg)
                      ELSE DictLoop(value, fields, i + 1, unseen_keys \ {key})

validate_typed_dict_no_unseen(value, the_type) ==
    IF the_type.any
    THEN Returned
    ELSE DictLoop(value, the_type.args, 1, {})

validate_typed_dict(value, the_type) ==
    IF the_type.any
    THEN Returned
    ELSE DictLoop(value, the_type.args, 1, DOMAIN value)

\* The inputs the validators are applied to.
SeqsUpTo(S, n) == UNION {[1..k -> S] : k \in 0..n}

\* Tuple[()] is left out: its __args__ differ between runtimes.
TupleTypes ==
    {AnyType} \cup
    {TupleType(a) : a \in {b \in SeqsUpTo(DeclTypes, MaxTupleArity) : b # <<>>}}
TupleValues == SeqsUpTo(Classes, MaxTupleLen)

Fields == [key : Keys, type : DeclTypes, required : BOOLEAN]
DistinctKeys(fields) ==
    \A i, j \in 1..Len(fields) : i # j => fields[i].key # fields[j].key
DictTypes ==
    {AnyType} \cup
    {DictType(f) : f \in {g \in SeqsUpTo(Fields, MaxFields) : DistinctKeys(g)}}
DictValues == UNION {[ks -> Classes] : ks \in SUBSET Keys}

IdleValidate ==
    /\ version_311 = FALSE
    /\ tuple_value = <<>> /\ tuple_type = AnyType /\ tuple_out = IdleOut
    /\ dict_value = <<>> /\ dict_type = AnyType /\ dict_out = IdleOut

InitValidateTuple ==
    /\ version_311 \in BOOLEAN
    /\ tuple_value \in TupleValues
    /\ tuple_type \in TupleTypes
    /\ tuple_out = PendingOut
    /\ dict_value = <<>> /\ dict_type = AnyType /\ dict_out = IdleOut

ValidateTuple ==
    /\ tuple_out = PendingOut
    /\ tuple_out' = validate_typed_tuple(tuple_value, tuple_type)
    /\ UNCHANGED <<version_311, tuple_value, tuple_type, dict_value, dict_type,
                   dict_out>>

InitValidateDict ==
    /\ version_311 \in BOOLEAN
    /\ dict_value \in DictValues
    /\ dict_type \in DictTypes
    /\ dict_out = PendingOut
    /\ tuple_value = <<>> /\ tuple_type = AnyType /\ tuple_out = IdleOut

ValidateDict ==
    /\ dict_out = PendingOut
    /\ dict_out' = validate_typed_dict(dict_value, dict_type)
    /\ UNCHANGED <<version_311, tuple_value, tuple_type, tuple_out, dict_value,
                   dict_type>>

(***************************************************************************)
(* escape_js_string_literal                                                *)
(***************************************************************************)
\* A string is the sequence of its characters.  The characters of the inputs:
\* a plain one, the three the regex matches, and the five that html.escape
\* rewrites.
\* The backslash, the backtick and the quotes are written by name.
Backslash == "<backslash>"
Backtick == "<backtick>"
Dollar == "$"
DoubleQuote == "<dquote>"
SingleQuote == "<squote>"
Chars == {"a", Backslash, Backtick, Dollar, "<", ">", "&", SingleQuote,
          DoubleQuote}

\* django.utils.html.escape is html.escape(str(text)): each of & < > " ' is
\* replaced by its entity, any other character is kept.
HtmlEscapeChar(c) ==
    CASE c = "&" -> <<"&", "a", "m", "p", ";">>
      [] c = "<" -> <<"&", "l", "t", ";">>
      [] c = ">" -> <<"&", "g", "t", ";">>
      [] c = DoubleQuote -> <<"&", "q", "u", "o", "t", ";">>
      [] c = SingleQuote -> <<"&", "#", "x", "2", "7", ";">>
      [] OTHER -> <<c>>

RECURSIVE escape(_)
escape(text) ==
    IF text = <<>> THEN <<>> ELSE HtmlEscapeChar(Head(text)) \o escape(Tail(text))

\* JS_STRING_LITERAL_SPECIAL_CHARS_REGEX matches a backslash, a backtick or
\* a dollar sign: the
\* characters one match of the regex consists of.
SpecialCharsWithoutDollar == {Backslash, Backtick}

JS_STRING_LITERAL_SPECIAL_CHARS == {Backslash, Backtick, Dollar}

\* on_replace_match: a backslash, then the match.
on_replace_match(match) == <<Backslash, match>>

\* JS_STRING_LITERAL_SPECIAL_CHARS_REGEX.sub(on_replace_match, s): every
\* match, left to right, is replaced; the text between matches is kept.
RECURSIVE RegexSub(_)
RegexSub(s) ==
    IF s = <<>>
    THEN <<>>
    ELSE (IF Head(s) \in JS_STRING_LITERAL_SPECIAL_CHARS
          THEN on_replace_match(Head(s))
          ELSE <<Head(s)>>) \o RegexSub(Tail(s))

escape_js_string_literal(text) == RegexSub(escape(text))

JsInputs == SeqsUpTo(Chars, MaxJsLen)

IdleEscape == js = <<>> /\ js_out = <<Idle>>

InitEscape == js \in JsInputs /\ js_out = <<Pending>>

EscapeJs ==
    /\ js_out = <<Pending>>
    /\ js_out' = escape_js_string_literal(js)
    /\ UNCHANGED js

(***************************************************************************)
(* gen_id                                                                  *)
(***************************************************************************)
\* The alphabet handed to generate(), by the index of each character.
Alphabet == 1..AlphabetSize

\* nanoid's generate(alphabet, size): `size` characters, each drawn at random
\* from the alphabet.  The set of the strings one call can return.
generate(alphabet, size) == [1..size -> alphabet]

\* gen_id(): generate(<alphanumeric alphabet>, size=6).
gen_id == generate(Alphabet, IdSize)

IdleGenId == ids = <<>>

InitGenId == ids = <<>>

GenId ==
    /\ Len(ids) < MaxGenCalls
    /\ \E id \in gen_id : ids' = Append(ids, id)

(***************************************************************************)
(* search_dirs                                                             *)
(***************************************************************************)
\* A path is the sequence of its components; a file on disk is its directory,
\* its stem and its extension.
File(dir, stem, ext) == [dir |-> dir, stem |-> stem, ext |-> ext]

Files ==
    { File(<<"a">>, "x", "py"),
      File(<<"a", "b">>, "y", "py"),
      File(<<"a", "b">>, "z", "js"),
      File(<<"c">>, "x", "py") }

Directories == { <<"a">>, <<"a", "b">>, <<"c">>, <<"d">> }

\* search_glob: "**/*.<ext>" (recursive) or "*.<ext>" (the directory itself).
Globs ==
    { [recursive |-> TRUE, ext |-> "py"],
      [recursive |-> TRUE, ext |-> "js"],
      [recursive |-> FALSE, ext |-> "py"] }

IsPrefix(p, q) == Len(p) <= Len(q) /\ SubSeq(q, 1, Len(p)) = p

\* Whether glob.iglob(str(Path(directory) / search_glob), recursive=True)
\* yields the file: "**" stands for zero or more directories.
GlobMatches(file, directory, glob) ==
    /\ file.ext = glob.ext
    /\ IF glob.recursive THEN IsPrefix(directory, file.dir)
                         ELSE file.dir = directory

\* glob.iglob(...) for one directory: the matching files on disk, each once,
\* in the order the directories list them.
RECURSIVE iglob(_, _, _)
iglob(files, directory, glob) ==
    IF files = <<>>
    THEN <<>>
    ELSE (IF GlobMatches(Head(files), directory, glob)
          THEN <<Head(files)>> ELSE <<>>) \o iglob(Tail(files), directory, glob)

\* The paths of a sequence that are not among `have`, each once.
RECURSIVE WithoutSeen(_, _)
WithoutSeen(paths, have) ==
    IF paths = <<>>
    THEN <<>>
    ELSE IF Head(paths) \in have
         THEN WithoutSeen(Tail(paths), have)
         ELSE <<Head(paths)>> \o WithoutSeen(Tail(paths), have \cup {Head(paths)})

Range(f) == {f[i] : i \in DOMAIN f}

\* `for directory in dirs: for path in glob.iglob(...):
\*      matched_files.append(Path(path))`, from the directories left.
RECURSIVE SearchLoopDedup(_, _, _, _)
SearchLoopDedup(files, ds, glob, matched) ==
    IF ds = <<>>
    THEN matched
    ELSE SearchLoopDedup(files, Tail(ds), glob,
             matched \o WithoutSeen(iglob(files, Head(ds), glob), Range(matched)))

RECURSIVE SearchLoop(_, _, _, _)
SearchLoop(files, ds, glob, matched) ==
    IF ds = <<>>
    THEN matched
    ELSE SearchLoop(files, Tail(ds), glob,
                    matched \o iglob(files, Head(ds), glob))

search_dirs(files, ds, glob) == SearchLoop(files, ds, glob, <<>>)

\* The orders in which the disk may list a set of files.
Listings ==
    UNION { {l \in [1..Cardinality(fs) -> fs] : Range(l) = fs} : fs \in SUBSET Files }

\* matched_files before search_dirs has returned.
SearchPending == <<File(<<>>, Pending, "")>>
SearchIdle == <<File(<<>>, Idle, "")>>

IdleSearch ==
    /\ listing = <<>> /\ dirs = <<>> /\ search_glob = [recursive |-> TRUE, ext |-> "py"]
    /\ matched_files = SearchIdle

InitSearch ==
    /\ listing \in Listings
    /\ dirs \in SeqsUpTo(Directories, MaxDirs)
    /\ search_glob \in Globs
    /\ matched_files = SearchPending

SearchDirs ==
    /\ matched_files = SearchPending
    /\ matched_files' = search_dirs(listing, dirs, search_glob)
    /\ UNCHANGED <<listing, dirs, search_glob>>

(***************************************************************************)
(* get_component_dirs                                                      *)
(***************************************************************************)
\* An entry of COMPONENTS.dirs: a path, or a tuple whose second member is the
\* path.  The path is absolute, relative, or no path at all (the 3 of
\* ("with_not_str_alias", 3) in the tests).
PathValues ==
    { [kind |-> "absolute", name |-> "/srv/components"],
      [kind |-> "absolute", name |-> "/srv/other"],
      [kind |-> "relative", name |-> "components"],
      [kind |-> "not_a_path", name |-> "3"] }

Entries == [is_tuple : BOOLEAN, path : PathValues]

\* The directories the framework's app registry contributes.
AppDirs == {"/app/components"}

DirsReturned(directories, warnings) ==
    [exc |-> None, msg |-> "", returned |-> TRUE, directories |-> directories,
     warnings |-> warnings]

DirsRaised(msg, warnings) ==
    [exc |-> "ValueError", msg |-> msg, returned |-> FALSE, directories |-> {},
     warnings |-> warnings]

DirsPending == [DirsReturned({}, 0) EXCEPT !.exc = Pending, !.returned = FALSE]
DirsIdle == [DirsReturned({}, 0) EXCEPT !.exc = Idle, !.returned = FALSE]

\* The loop over the configured entries: a malformed entry is warned about
\* and skipped, a relative path raises, an absolute path is added.
RECURSIVE ComponentDirsLoopPlainOnly(_, _, _)
ComponentDirsLoopPlainOnly(entries, directories, warnings) ==
    IF entries = <<>>
    THEN DirsReturned(directories, warnings)
    ELSE LET path == Head(entries).path
         IN  CASE path.kind = "not_a_path" ->
                    ComponentDirsLoopPlainOnly(Tail(entries), directories,
                                               warnings + 1)
               [] path.kind = "relative" /\ ~Head(entries).is_tuple ->
                    DirsRaised("COMPONENTS.dirs must contain absolute paths",
                               warnings)
               [] OTHER ->
                    ComponentDirsLoopPlainOnly(Tail(entries),
                        directories \cup {path.name}, warnings)

RECURSIVE ComponentDirsLoop(_, _, _)
ComponentDirsLoop(entries, directories, warnings) ==
    IF entries = <<>>
    THEN DirsReturned(directories, warnings)
    ELSE LET path == Head(entries).path
         IN  CASE path.kind = "not_a_path" ->
                    ComponentDirsLoop(Tail(entries), directories, warnings + 1)
               [] path.kind = "relative" ->
                    DirsRaised("COMPONENTS.dirs must contain absolute paths",
                               warnings)
               [] OTHER ->
                    ComponentDirsLoop(Tail(entries),
                                      directories \cup {path.name}, warnings)

get_component_dirs(entries) == ComponentDirsLoop(entries, AppDirs, 0)

IdleLoader == components_dirs = <<>> /\ component_dirs_out = DirsIdle

InitLoader ==
    /\ components_dirs \in SeqsUpTo(Entries, MaxEntries)
    /\ component_dirs_out = DirsPending

GetComponentDirs ==
    /\ component_dirs_out = DirsPending
    /\ component_dirs_out' = get_component_dirs(components_dirs)
    /\ UNCHANGED components_dirs

(***************************************************************************)
(* Specifications                                                          *)
(***************************************************************************)
\* lazy_cache: a decorator, the wrappers it makes and their attributes.
Init ==
    /\ InitLazy
    /\ IdleValidate /\ IdleEscape /\ IdleGenId /\ IdleSearch /\ IdleLoader

OthersUnchanged ==
    UNCHANGED <<validate_vars, escape_vars, gen_id_vars, search_vars, loader_vars>>

Next ==
    \/ \E fn \in Fns : Decorate(fn) /\ OthersUnchanged
    \/ \E fn \in Fns, arg \in Args : WrapperCall(fn, arg) /\ OthersUnchanged
    \/ \E fn \in Fns : CacheInfoCall(fn) /\ OthersUnchanged
    \/ \E fn \in Fns : CacheClearCall(fn) /\ OthersUnchanged
    \/ \E fn \in Fns : CacheRemoveCall(fn) /\ OthersUnchanged

Spec == Init /\ [][Next]_vars

\* validate_typed_tuple or validate_typed_dict applied to every value and
\* type within the bounds, on either side of runtime 3.11.
InitValidate ==
    /\ InitValidateTuple \/ InitValidateDict
    /\ InitLazy /\ IdleEscape /\ IdleGenId /\ IdleSearch /\ IdleLoader

ValidateOthersUnchanged ==
    UNCHANGED <<lazy_vars, escape_vars, gen_id_vars, search_vars, loader_vars>>

NextValidate ==
    \/ ValidateTuple /\ ValidateOthersUnchanged
    \/ ValidateDict /\ ValidateOthersUnchanged

SpecValidate == InitValidate /\ [][NextValidate]_vars

\* escape_js_string_literal applied to every string within the bounds.
InitEscapeJs ==
    /\ InitEscape
    /\ InitLazy /\ IdleValidate /\ IdleGenId /\ IdleSearch /\ IdleLoader

NextEscapeJs ==
    /\ EscapeJs
    /\ UNCHANGED <<lazy_vars, validate_vars, gen_id_vars, search_vars, loader_vars>>

SpecEscapeJs == InitEscapeJs /\ [][NextEscapeJs]_vars

\* gen_id called repeatedly in one process.
InitIds ==
    /\ InitGenId
    /\ InitLazy /\ IdleValidate /\ IdleEscape /\ IdleSearch /\ IdleLoader

NextIds ==
    /\ GenId
    /\ UNCHANGED <<lazy_vars, validate_vars, escape_vars, search_vars, loader_vars>>

SpecGenId == InitIds /\ [][NextIds]_vars

\* search_dirs applied to every disk, directory list and glob within the
\* bounds.
InitSearchDirs ==
    /\ InitSearch
    /\ InitLazy /\ IdleValidate /\ IdleEscape /\ IdleGenId /\ IdleLoader

NextSearchDirs ==
    /\ SearchDirs
    /\ UNCHANGED <<lazy_vars, validate_vars, escape_vars, gen_id_vars, loader_vars>>

SpecSearchDirs == InitSearchDirs /\ [][NextSearchDirs]_vars

\* get_component_dirs applied to every COMPONENTS.dirs within the bounds.
InitComponentDirs ==
    /\ InitLoader
    /\ InitLazy /\ IdleValidate /\ IdleEscape /\ IdleGenId /\ IdleSearch

NextComponentDirs ==
    /\ GetComponentDirs
    /\ UNCHANGED <<lazy_vars, validate_vars, escape_vars, gen_id_vars, search_vars>>

SpecComponentDirs == InitComponentDirs /\ [][NextComponentDirs]_vars

(***************************************************************************)
(* Properties of lazy_cache (checked under Spec)                           *)
(***************************************************************************)
\* C1: make_cache is not invoked when functions are decorated; the first
\* call of a wrapper invokes it; and as long as cache_remove() was never
\* called, it has been invoked exactly once however many wrapper calls and
\* cache_clear() calls were made.
C1_MakeCacheOnce ==
    /\ wrapper_calls = 0 => make_calls = 0
    /\ wrapper_calls = 1 => make_calls = 1
    /\ (wrapper_calls > 0 /\ removes = 0) => make_calls = 1

\* A wrapper call that followed a successful cache_clear() (the statistics
\* restarted: one miss, no hit, after two or more calls), with no
\* cache_remove() so far.
C1_Witness ==
    /\ last.op = "call"
    /\ wrapper_calls >= 2
    /\ removes = 0
    /\ cached_fn.misses = 1 /\ cached_fn.hits = 0
    /\ make_calls = 1

\* C5 (as claimed): cache_info() and cache_clear() complete without raising
\* in every state of the wrapper: before its first call, after calls and
\* after cache_remove().
C5_InfoAndClearNeverRaise ==
    last.op \in {"cache_info", "cache_clear"} => last.raised = None

\* C10: the wrapper call that follows cache_remove() invokes make_cache,
\* leaves a fresh cache that holds this call only, and invokes the
\* underlying function (also for an argument memoized before the removal);
\* and the number of make_cache invocations equals the number of wrapper
\* calls made while no cache instance existed.
C10_RemoveRebuildsCache ==
    /\ make_calls = calls_without_cache
    /\ (last.op = "call" /\ last.after_remove) =>
           /\ last.made_cache
           /\ last.invoked_fn
           /\ last.result = Apply(last.fn, last.arg)
           /\ cached_fn.fn = last.fn
           /\ cached_fn.memo = {last.arg}
           /\ cached_fn.misses = 1 /\ cached_fn.hits = 0

\* A wrapper was called, the cache removed, and the same wrapper called again
\* with the same argument: make_cache ran a second time.
C10_Witness ==
    /\ last.op = "call"
    /\ last.after_remove
    /\ last.seen_before
    /\ last.invoked_fn
    /\ make_calls = 2

(***************************************************************************)
(* Properties of the validators (checked under SpecValidate)               *)
(***************************************************************************)
TupleDone == tuple_out.exc \notin {Pending, Idle}
DictDone == dict_out.exc \notin {Pending, Idle}

\* A value of class cls is an instance of the declared type.
HasDeclaredType(cls, declared) ==
    \/ declared = "int" /\ cls = "int"
    \/ declared = "Comp[int]" /\ cls = "Comp"

Min(S) == CHOOSE x \in S : \A y \in S : x <= y

\* The positions (1-based) whose value is not of the type declared for it.
OffendingIndices ==
    {i \in 1..Len(tuple_type.args) :
        i <= Len(tuple_value) /\ ~HasDeclaredType(tuple_value[i], tuple_type.args[i])}

DeclaredKeys == {dict_type.args[i].key : i \in 1..Len(dict_type.args)}
\* The fields (by position in the declaration) that are required and absent,
\* and those that are present with a value of another type.
MissingFields ==
    {i \in 1..Len(dict_type.args) :
        dict_type.args[i].required /\ dict_type.args[i].key \notin DOMAIN dict_value}
OffendingFields ==
    {i \in 1..Len(dict_type.args) :
        /\ dict_type.args[i].key \in DOMAIN dict_value
        /\ ~HasDeclaredType(dict_value[dict_type.args[i].key], dict_type.args[i].type)}
UndeclaredKeys == DOMAIN dict_value \ DeclaredKeys

\* C2 (as claimed): with a tuple type other than Any, a TypeError about the
\* count is raised whenever the number of values differs from the number of
\* declared element types, fewer or more, and none when they are equal.
C2_CountMismatchRaises ==
    (TupleDone /\ ~tuple_type.any) =>
        (tuple_out.msg = "expected_count"
            <=> Len(tuple_value) # Len(tuple_type.args))

\* C3 (as claimed): with a dict type other than Any and a value whose present
\* entries all have the declared types, a TypeError naming the key is raised
\* if a required key is absent, a TypeError listing the keys is raised if the
\* value has undeclared keys, and nothing is raised otherwise.
C3_KeyPresenceOriginal ==
    (DictDone /\ ~dict_type.any /\ OffendingFields = {}) =>
        /\ MissingFields # {} =>
               /\ dict_out.exc = "TypeError" /\ dict_out.msg = "missing_required"
               /\ \E i \in MissingFields : dict_out.key = dict_type.args[i].key
        /\ UndeclaredKeys # {} =>
               /\ dict_out.exc = "TypeError" /\ dict_out.msg = "unexpected_keys"
               /\ dict_out.keys = UndeclaredKeys
        /\ (MissingFields = {} /\ UndeclaredKeys = {}) => dict_out = Returned

\* C3 (amended): as C3, except that the TypeError listing the undeclared keys
\* is raised only when no required key is absent; when a required key is
\* absent the TypeError names the first absent required key of the
\* declaration, whether or not the value also has undeclared keys.
C3_KeyPresence ==
    (DictDone /\ ~dict_type.any /\ OffendingFields = {}) =>
        /\ MissingFields # {} =>
               dict_out = MissingKeyError(dict_type.args[Min(MissingFields)].key)
        /\ (MissingFields = {} /\ UndeclaredKeys # {}) =>
               dict_out = UnexpectedKeysError(UndeclaredKeys)
        /\ (MissingFields = {} /\ UndeclaredKeys = {}) => dict_out = Returned

\* A well-typed value with an absent required key and an undeclared key: the
\* error names the absent key.
C3_Witness ==
    /\ DictDone /\ ~dict_type.any /\ OffendingFields = {}
    /\ MissingFields # {} /\ UndeclaredKeys # {}
    /\ \E i \in 1..Len(dict_type.args) :
           ~dict_type.args[i].required /\ dict_type.args[i].key \notin DOMAIN dict_value
    /\ dict_out.msg = "missing_required"

TypeErrorMsgs == {"expected_type_at_index", "expected_type_at_key"}

\* C4 (as claimed): on 3.11 or later a value that is not an instance of its
\* declared type makes the validator raise a TypeError that names the first
\* offending index (lowest) or key (first declared); before 3.11 no type
\* error is raised.
C4_TypeMismatchOriginal ==
    /\ (TupleDone /\ ~tuple_type.any) =>
           IF version_311
           THEN OffendingIndices # {} =>
                    /\ tuple_out.exc = "TypeError"
                    /\ tuple_out.msg = "expected_type_at_index"
                    /\ tuple_out.index = Min(OffendingIndices) - 1
           ELSE tuple_out.msg \notin TypeErrorMsgs
    /\ (DictDone /\ ~dict_type.any) =>
           IF version_311
           THEN OffendingFields # {} =>
                    /\ dict_out.exc = "TypeError"
                    /\ dict_out.msg = "expected_type_at_key"
                    /\ dict_out.key = dict_type.args[Min(OffendingFields)].key
           ELSE dict_out.msg \notin TypeErrorMsgs

\* C4 (amended): on 3.11 or later a value that is not an instance of its
\* declared type makes the validator raise a TypeError.  The error names the
\* lowest offending index unless fewer values than declared were supplied
\* (then it is the count error), and the first offending key of the
\* declaration unless a required key declared before it is absent (then it
\* names that absent key).  Before 3.11 no type error is raised: the outcome
\* is the count or key-presence outcome alone.
C4_TypeMismatch ==
    /\ (TupleDone /\ ~tuple_type.any) =>
           IF version_311
           THEN OffendingIndices # {} =>
                    /\ tuple_out.exc = "TypeError"
                    /\ IF Len(tuple_value) < Len(tuple_type.args)
                       THEN tuple_out.msg = "expected_count"
                       ELSE /\ tuple_out.msg = "expected_type_at_index"
                            /\ tuple_out.index = Min(OffendingIndices) - 1
                            /\ tuple_out.type_got = tuple_value[Min(OffendingIndices)]
           ELSE /\ tuple_out.msg \notin TypeErrorMsgs
                /\ tuple_out.exc = "TypeError"
                       <=> Len(tuple_value) < Len(tuple_type.args)
    /\ (DictDone /\ ~dict_type.any) =>
           IF version_311
           THEN OffendingFields # {} =>
                    /\ dict_out.exc = "TypeError"
                    /\ LET first == Min(OffendingFields)
                           before == {i \in MissingFields : i < first}
                       IN  IF before # {}
                           THEN /\ dict_out.msg = "missing_required"
                                /\ dict_out.key = dict_type.args[Min(before)].key
                           ELSE /\ dict_out.msg = "expected_type_at_key"
                                /\ dict_out.key = dict_type.args[first].key
                                /\ dict_out.type_got = dict_value[dict_out.key]
           ELSE /\ dict_out.msg \notin TypeErrorMsgs
                /\ dict_out.exc = "TypeError"
                       <=> (MissingFields # {} \/ UndeclaredKeys # {})

\* On 3.11, a value of the generic's origin class passes at index 0 and a
\* value of another class is reported at index 1.
C4_Witness ==
    /\ TupleDone /\ version_311
    /\ tuple_type = TupleType(<<"Comp[int]", "int">>)
    /\ tuple_value = <<"Comp", "str">>
    /\ tuple_out = IndexTypeError(1, "int", "str")

(***************************************************************************)
(* Properties of escape_js_string_literal (checked under SpecEscapeJs)     *)
(***************************************************************************)
EscapeDone == js_out \notin {<<Pending>>, <<Idle>>}

\* Reading an escaped string from position i: a backslash takes the next
\* character with it, which must be a backslash, a backtick or a dollar sign;
\* a backtick or a dollar sign met on its own is unescaped.  `plain` is the
\* string with the escaping backslashes taken away.
RECURSIVE Decode(_, _)
Decode(s, i) ==
    IF i > Len(s)
    THEN [ok |-> TRUE, plain |-> <<>>]
    ELSE IF s[i] = Backslash
         THEN IF i + 1 <= Len(s) /\ s[i + 1] \in {Backslash, Backtick, Dollar}
              THEN LET rest == Decode(s, i + 2)
                   IN  [ok |-> rest.ok, plain |-> <<s[i + 1]>> \o rest.plain]
              ELSE [ok |-> FALSE, plain |-> <<>>]
         ELSE IF s[i] \in {Backtick, Dollar}
              THEN [ok |-> FALSE, plain |-> <<>>]
              ELSE LET rest == Decode(s, i + 1)
                   IN  [ok |-> rest.ok, plain |-> <<s[i]>> \o rest.plain]

\* The number of consecutive backslashes that end right before position i.
RECURSIVE BackslashesBefore(_, _)
BackslashesBefore(s, i) ==
    IF i > 1 /\ s[i - 1] = Backslash THEN 1 + BackslashesBefore(s, i - 1) ELSE 0

\* C6: the output is the HTML-escaped input in which every backslash,
\* backtick and dollar sign carries exactly one backslash before it and no
\* other character is changed; so every backtick and dollar sign of the
\* output follows a backslash that escapes it (an odd run of backslashes).
C6_EscapeJsLiteral ==
    EscapeDone =>
        /\ Decode(js_out, 1).ok
        /\ Decode(js_out, 1).plain = escape(js)
        /\ Len(js_out) = Len(escape(js))
               + Cardinality({i \in 1..Len(escape(js)) :
                                 escape(js)[i] \in {Backslash, Backtick, Dollar}})
        /\ \A i \in 1..Len(js_out) :
               js_out[i] \in {Backtick, Dollar} =>
                   BackslashesBefore(js_out, i) % 2 = 1

\* A backslash right before a dollar sign, and a character HTML-escaping
\* rewrites: the output has three backslashes before the dollar sign.
C6_Witness ==
    /\ EscapeDone
    /\ js = <<Backslash, Dollar, "<">>
    /\ js_out = <<Backslash, Backslash, Backslash, Dollar, "&", "l", "t", ";">>

(***************************************************************************)
(* Properties of gen_id (checked under SpecGenId)                          *)
(***************************************************************************)
\* C7 (as claimed): no two gen_id() calls of one process return the same
\* identifier.
C7_IdsUnique ==
    \A i, j \in 1..Len(ids) : i # j => ids[i] # ids[j]

(***************************************************************************)
(* Properties of search_dirs (checked under SpecSearchDirs)                *)
(***************************************************************************)
SearchDone == matched_files \notin {SearchPending, SearchIdle}

\* The files on disk that the glob matches under a directory.
MatchSet(directory) ==
    {f \in Range(listing) : GlobMatches(f, directory, search_glob)}

\* Where the block of the i-th directory starts in the result (0-based).
RECURSIVE BlockStart(_)
BlockStart(i) ==
    IF i <= 1 THEN 0 ELSE BlockStart(i - 1) + Cardinality(MatchSet(dirs[i - 1]))

\* C8: the result is one flat list made of one block per directory, in the
\* order of dirs; the block of a directory holds every path the glob matches
\* under it, each once, and nothing else.  So the result is empty when dirs
\* is empty or nothing matches, and a path matched under several of the
\* given directories occurs once per directory that matched it.
C8_SearchDirsFlat ==
    SearchDone =>
        /\ Len(matched_files) = BlockStart(Len(dirs) + 1)
        /\ \A i \in 1..Len(dirs) :
               LET n == Cardinality(MatchSet(dirs[i]))
                   block == SubSeq(matched_files, BlockStart(i) + 1,
                                   BlockStart(i) + n)
               IN  /\ Range(block) = MatchSet(dirs[i])
                   /\ Len(block) = n
        /\ \A f \in Files :
               Cardinality({k \in 1..Len(matched_files) : matched_files[k] = f})
                   = Cardinality({i \in 1..Len(dirs) : f \in MatchSet(dirs[i])})
        /\ (dirs = <<>> \/ \A i \in 1..Len(dirs) : MatchSet(dirs[i]) = {}) =>
               matched_files = <<>>

\* A directory and one of its subdirectories are searched: a file of the
\* subdirectory is in the result twice.
C8_Witness ==
    /\ SearchDone
    /\ Len(dirs) = 2 /\ dirs[1] # dirs[2]
    /\ \E k1, k2 \in 1..Len(matched_files) :
           k1 < k2 /\ matched_files[k1] = matched_files[k2]

(***************************************************************************)
(* Properties of get_component_dirs (checked under SpecComponentDirs)      *)
(***************************************************************************)
ComponentDirsDone == component_dirs_out.exc \notin {Pending, Idle}

\* C9: if an entry of COMPONENTS.dirs is a relative path, as a plain path or
\* as the path of an (alias, path) tuple, the call raises the ValueError
\* "COMPONENTS.dirs must contain absolute paths" and returns no list.
C9_RelativePathRejected ==
    (/\ ComponentDirsDone
     /\ \E i \in 1..Len(components_dirs) :
            components_dirs[i].path.kind = "relative") =>
        /\ component_dirs_out.exc = "ValueError"
        /\ component_dirs_out.msg = "COMPONENTS.dirs must contain absolute paths"
        /\ ~component_dirs_out.returned
        /\ component_dirs_out.directories = {}

\* An absolute entry, then a tuple with a relative path: the call raised.
C9_Witness ==
    /\ ComponentDirsDone
    /\ Len(components_dirs) = 2
    /\ components_dirs[1].path.kind = "absolute"
    /\ components_dirs[2].is_tuple
    /\ components_dirs[2].path.kind = "relative"
    /\ component_dirs_out.exc = "ValueError"

(***************************************************************************)
(* The Any type (checked under SpecValidate)                               *)
(***************************************************************************)
\* C11: when the declared type is Any, validate_typed_tuple and
\* validate_typed_dict return without raising for every value, whatever its
\* length, its keys and the classes of its elements, on either runtime.
C11_AnySkipsValidation ==
    /\ (TupleDone /\ tuple_type.any) => tuple_out = Returned
    /\ (DictDone /\ dict_type.any) => dict_out = Returned

\* On 3.11, a tuple of the greatest length with a str in it was validated
\* against Any and nothing was raised.
C11_Witness ==
    /\ TupleDone /\ tuple_type.any /\ version_311
    /\ Len(tuple_value) = MaxTupleLen
    /\ \E i \in 1..Len(tuple_value) : tuple_value[i] = "str"
    /\ tuple_out.exc = None

(***************************************************************************)
(* Two wrappers of one decorator (checked under Spec)                      *)
(***************************************************************************)
\* C12 (as claimed): when the decorator of one lazy_cache(make_cache) call is
\* applied to f and to g, a call of either wrapper returns the result of its
\* own function for its arguments, and the cache it reads is a cache around
\* its own function, in every interleaving of calls.
C12_WrappersIsolated ==
    last.op = "call" =>
        /\ last.result = Apply(last.fn, last.arg)
        /\ cached_fn.fn = last.fn

====
